---------------------------- MODULE Spec2Model ----------------------------
(* A model of pandora-to-spotify: the Pandora client (pandora.py), the     *)
(* Spotify client (spotify.py) and the orchestrating script (main.py).     *)
(* Every HTTP request is one step; the remote providers, the refresh-token *)
(* file and the operator's redirect string are the environment.            *)
EXTENDS Integers, Sequences, FiniteSets, TLC

VARIABLES
    \* ---- PandoraClient.get_station_feedbacks (pandora.py 75-109)
    fb_pc,            \* "call" | "probe" | "page" | "done"
    station_id,       \* argument station_id
    positive,         \* argument positive
    total_feedbacks,  \* "total" of the size-probe response
    fb_pages,         \* the range of the for loop: ceil(total_feedbacks / page_size)
    fb_i,             \* loop variable i
    feedback,         \* local list feedback
    fb_requests,      \* history: request bodies sent to /station/getStationFeedback
    fb_responses,     \* history: "feedback" arrays of the page responses
    fb_conform,       \* history: every page so far held records startIndex..min(startIndex+pageSize,total)-1
    \* ---- PandoraClient construction and data calls (pandora.py 16-28, 111-169)
    p_headers,        \* PandoraClient.headers, the class attribute every instance reads and updates
    p_cookies,        \* PandoraClient.cookies, likewise
    p_pc,             \* "idle" | "csrf" | "login": position inside __init__
    p_args,           \* (username, password) of the construction in progress
    p_outcome,        \* how the last construction ended: "none" | "ok" | "AuthorizationError" | "KeyError"
    p_attempts,       \* number of constructions started
    clients,          \* the instances whose constructor returned, with their credentials
    logins,           \* history: /auth/login requests with the authToken answered (None: absent)
    data_requests,    \* history: data requests, with the instance that sent them
    \* ---- SpotifyClient authorization (spotify.py 228-299)
    s_headers,        \* the SpotifyClient's headers attribute
    auth_cache,       \* content of the file AUTH_CACHE_FILE, or NoFile
    cache0,           \* history: content of that file when the constructor was called
    a_pc,             \* "start" | "consent" | "exchange" | "done": position inside _authorize
    a_outcome,        \* "none" | "returned" | "AuthorizationError" | "KeyError"
    consents,         \* history: number of _authorize_user invocations
    redirect,         \* the line the operator typed at input()
    user_auth_code,   \* what _authorize_user returned
    token_requests,   \* history: form data posted to AUTH_TOKEN_URL
    token_responses,  \* history: the answers, in the same order
    \* ---- main.py 19-29 and SpotifyClient data operations (spotify.py 34-211)
    debug,            \* conf.ini [app] debug
    m_pc,             \* "stations" | "liked" | "me" | "create" | "search" | "retry" | "add" | "done"
    m_error,          \* the exception that ended the script, or "none"
    stations,         \* the (filtered) list the for loop of main.py runs over
    m_i,              \* position of that loop: index of the current station
    group,            \* argument of the current or last import_song_group call
    song_i,           \* position of the loop of import_song_group: index of the current song
    _user_id,         \* SpotifyClient._user_id
    playlist_id,      \* local playlist_id of import_song_group
    song_uri,         \* local song_uri of import_song
    s_requests,       \* history: requests the current or last import_song_group call sent
    created,          \* history: number of playlist-creation requests of the run
    added,            \* history: number of track-addition requests of the run
    nonempty,         \* history: number of stations whose liked-song list was not empty
    liked_total       \* history: number of liked songs of those stations

feedVars == <<fb_pc, station_id, positive, total_feedbacks, fb_pages, fb_i,
              feedback, fb_requests, fb_responses, fb_conform>>

panVars == <<p_headers, p_cookies, p_pc, p_args, p_outcome, p_attempts, clients,
             logins, data_requests>>

authRest == <<auth_cache, cache0, a_pc, a_outcome, consents, redirect, user_auth_code,
              token_requests, token_responses>>

authVars == <<s_headers, authRest>>

mainVars == <<debug, m_pc, m_error, stations, m_i, group, song_i, _user_id, playlist_id,
              song_uri, s_requests, created, added, nonempty, liked_total>>

vars == <<feedVars, panVars, authVars, mainVars>>

None == "None"

Min(a, b) == IF a <= b THEN a ELSE b

RECURSIVE Flatten(_)
Flatten(ss) == IF ss = <<>> THEN <<>> ELSE Head(ss) \o Flatten(Tail(ss))

-----------------------------------------------------------------------------
(* Bounds *)
MaxTotal == 21
MaxClients == 3
MaxData == 2
MaxRedirectLen == 3
MaxStations == 2
MaxSongs == 2

\* dict literals and dict.update
EmptyDict == [k \in {} |-> None]

Update(d, e) == e @@ d

-----------------------------------------------------------------------------
(* pandora.py: get_station_feedbacks *)

StationIds == {"894519264273116392", "st2"}

page_size == 10

\* a // b in place of math.ceil(a / b)
CeilFloor(a, b) == a \div b

\* math.ceil(a / b) for a >= 0, b > 0
Ceil(a, b) == IF a % b = 0 THEN a \div b ELSE (a \div b) + 1

base_request == [stationId |-> station_id, positive |-> positive, pageSize |-> page_size]

size_request == [base_request EXCEPT !.pageSize = 1]

feedback_request(i) ==
    [stationId |-> station_id, positive |-> positive, pageSize |-> page_size,
     startIndex |-> i * page_size]

\* The records a provider holding `total` records serves for one request
ProviderPage(req, total) ==
    [k \in 1..Min(req.pageSize, total - req.startIndex) |-> req.startIndex + k - 1]

FeedStart ==
    /\ fb_pc = "call"
    /\ station_id \in StationIds
    /\ positive \in BOOLEAN
    /\ total_feedbacks = 0
    /\ fb_pages = 0
    /\ fb_i = 0
    /\ feedback = <<>>
    /\ fb_requests = <<>>
    /\ fb_responses = <<>>
    /\ fb_conform = TRUE

\* lines 99-104: the size probe, and the loop's range
FbProbe ==
    /\ fb_pc = "call"
    /\ \E t \in 0..MaxTotal :
          /\ total_feedbacks' = t
          /\ fb_pages' = Ceil(t, page_size)
    /\ fb_requests' = Append(fb_requests, size_request)
    /\ fb_i' = 0
    /\ feedback' = <<>>
    /\ fb_pc' = "page"
    /\ UNCHANGED <<station_id, positive, fb_responses, fb_conform>>
    /\ UNCHANGED <<panVars, authVars, mainVars>>

\* lines 104-108: one iteration of the loop
FbPage ==
    /\ fb_pc = "page"
    /\ fb_i < fb_pages
    /\ LET req == feedback_request(fb_i)
           good == ProviderPage(req, total_feedbacks)
       IN  /\ fb_requests' = Append(fb_requests, req)
           /\ \E page \in {good, <<>>} :
                 /\ feedback' = feedback \o page
                 /\ fb_responses' = Append(fb_responses, page)
                 /\ fb_conform' = (fb_conform /\ page = good)
    /\ fb_i' = fb_i + 1
    /\ UNCHANGED <<fb_pc, station_id, positive, total_feedbacks, fb_pages>>
    /\ UNCHANGED <<panVars, authVars, mainVars>>

\* line 109: return feedback
FbReturn ==
    /\ fb_pc = "page"
    /\ fb_i >= fb_pages
    /\ fb_pc' = "done"
    /\ UNCHANGED <<station_id, positive, total_feedbacks, fb_pages, fb_i,
                   feedback, fb_requests, fb_responses, fb_conform>>
    /\ UNCHANGED <<panVars, authVars, mainVars>>

FeedIdle ==
    /\ fb_pc = "idle"
    /\ station_id = None
    /\ positive = TRUE
    /\ total_feedbacks = 0
    /\ fb_pages = 0
    /\ fb_i = 0
    /\ feedback = <<>>
    /\ fb_requests = <<>>
    /\ fb_responses = <<>>
    /\ fb_conform = TRUE

-----------------------------------------------------------------------------
(* pandora.py: construction (__init__, _get_csrf, _login) and _send *)

Usernames == {"alice", "bob"}
Passwords == {"pwA", "pwB"}

\* The provider's accounts: the password and the auth token of each user
AccountPassword == [u \in Usernames |-> IF u = "alice" THEN "pwA" ELSE "pwB"]
AccountToken == [u \in Usernames |-> IF u = "alice" THEN "tokA" ELSE "tokB"]

CsrfTokens == {"csrf1", "csrf2"}

csrf_token_header_name == "X-CsrfToken"
auth_token_header_name == "X-AuthToken"

\* lines 127-133: the request _send builds carries the class's headers and cookies
PandoraSend(endpoint, data) ==
    [endpoint |-> endpoint, headers |-> p_headers, cookies |-> p_cookies, json |-> data]

\* /auth/login: the body holds authToken only for a known username and password
LoginResponse(username, password) ==
    IF AccountPassword[username] = password THEN AccountToken[username] ELSE None

PanStart ==
    /\ p_headers = EmptyDict
    /\ p_cookies = EmptyDict
    /\ p_pc = "idle"
    /\ p_args = <<None, None>>
    /\ p_outcome = "none"
    /\ p_attempts = 0
    /\ clients = <<>>
    /\ logins = <<>>
    /\ data_requests = <<>>

\* PandoraClient(username, password) is called
PandoraNew ==
    /\ p_pc = "idle"
    /\ p_attempts < MaxClients
    /\ \E u \in Usernames, p \in Passwords : p_args' = <<u, p>>
    /\ p_attempts' = p_attempts + 1
    /\ p_outcome' = "none"
    /\ p_pc' = "csrf"
    /\ UNCHANGED <<p_headers, p_cookies, clients, logins, data_requests>>
    /\ UNCHANGED <<feedVars, authVars, mainVars>>

\* lines 138-150
_get_csrf ==
    /\ p_pc = "csrf"
    /\ IF csrf_token_header_name \notin DOMAIN p_headers
       THEN \E response_cookies \in {EmptyDict} \cup {("csrftoken" :> c) : c \in CsrfTokens} :
               LET cookies2 == Update(p_cookies, response_cookies)
               IN  /\ p_cookies' = cookies2
                   /\ IF "csrftoken" \in DOMAIN cookies2
                      THEN /\ p_headers' = Update(p_headers,
                                             csrf_token_header_name :> cookies2["csrftoken"])
                           /\ p_pc' = "login"
                           /\ UNCHANGED p_outcome
                      ELSE /\ p_outcome' = "KeyError"
                           /\ p_pc' = "idle"
                           /\ UNCHANGED p_headers
       ELSE /\ p_pc' = "login"
            /\ UNCHANGED <<p_headers, p_cookies, p_outcome>>
    /\ UNCHANGED <<p_args, p_attempts, clients, logins, data_requests>>
    /\ UNCHANGED <<feedVars, authVars, mainVars>>

\* lines 152-169, and the constructor's return
_login ==
    /\ p_pc = "login"
    /\ LET username == p_args[1]
           password == p_args[2]
       IN  IF auth_token_header_name \notin DOMAIN p_headers
           THEN LET auth_token == LoginResponse(username, password)
                IN  /\ logins' = Append(logins, [username |-> username, password |-> password,
                                                  authToken |-> auth_token])
                    /\ IF auth_token = None
                       THEN /\ p_outcome' = "AuthorizationError"
                            /\ UNCHANGED <<p_headers, clients>>
                       ELSE /\ p_headers' = Update(p_headers,
                                                   auth_token_header_name :> auth_token)
                            /\ clients' = Append(clients, [username |-> username,
                                                            password |-> password])
                            /\ p_outcome' = "ok"
           ELSE /\ clients' = Append(clients, [username |-> username, password |-> password])
                /\ p_outcome' = "ok"
                /\ UNCHANGED <<p_headers, logins>>
    /\ p_pc' = "idle"
    /\ UNCHANGED <<p_cookies, p_args, p_attempts, data_requests>>
    /\ UNCHANGED <<feedVars, authVars, mainVars>>

\* lines 70-71 and 101, 107: a data request of instance c
PandoraData(c, endpoint, data) ==
    /\ p_pc = "idle"
    /\ Len(data_requests) < MaxData
    /\ data_requests' = Append(data_requests,
                               [client |-> c, request |-> PandoraSend(endpoint, data)])
    /\ UNCHANGED <<p_headers, p_cookies, p_pc, p_args, p_outcome, p_attempts, clients, logins>>
    /\ UNCHANGED <<feedVars, authVars, mainVars>>

get_stations ==
    \E c \in 1..Len(clients) :
        PandoraData(c, "/station/getStations", [pageSize |-> 250])

get_station_feedbacks ==
    \E c \in 1..Len(clients), s \in StationIds :
        PandoraData(c, "/station/getStationFeedback",
                    [stationId |-> s, positive |-> TRUE, pageSize |-> 1])

-----------------------------------------------------------------------------
(* spotify.py: _authorize, _refresh_auth, _handle_auth_response,           *)
(* _authorize_user. Strings are sequences of tokens.                       *)

NoFile == "NoFile"

AUTH_REDIRECT_URI == "http://localhost/auth/"

RedirectTokens == {AUTH_REDIRECT_URI, "?code=", "?error=access_denied", "ABC123", "x"}

RECURSIVE SeqsUpTo(_, _)
SeqsUpTo(S, n) ==
    IF n = 0 THEN {<<>>}
    ELSE LET shorter == SeqsUpTo(S, n - 1)
         IN  shorter \cup {Append(q, x) : q \in shorter, x \in S}

\* What the operator may type
Redirects == SeqsUpTo(RedirectTokens, MaxRedirectLen)

\* What the token endpoint may answer: a status and a JSON body in which
\* access_token and refresh_token may each be absent (None)
TokenResponses ==
    [status_code : {200, 400}, access_token : {None, "at1"}, refresh_token : {None, "rt1"}]

Bearer(access_token) == <<"Bearer ", access_token>>

\* re.match(pattern, s) with a literal pattern: the pattern is a prefix of s
HasPrefix(s, pattern) ==
    /\ Len(s) >= Len(pattern)
    /\ SubSeq(s, 1, Len(pattern)) = pattern

\* re.search instead of re.match: the pattern occurs anywhere in s
accept_search(s) ==
    \E k \in 0..Len(s) : HasPrefix(SubSeq(s, k + 1, Len(s)), <<AUTH_REDIRECT_URI, "?code=">>)

\* line 290
accept_match(s) == HasPrefix(s, <<AUTH_REDIRECT_URI, "?code=">>)

\* line 291
deny_match(s) == HasPrefix(s, <<AUTH_REDIRECT_URI, "?error=access_denied">>)

\* line 298: group 1 of accept_match, the (.*) after "?code="
accept_group1(s) == SubSeq(s, 3, Len(s))

\* lines 265-272: "AuthorizationError", "KeyError" or "ok"
handle_auth_result(response) ==
    IF response.status_code # 200 THEN "AuthorizationError"
    ELSE IF response.access_token = None THEN "KeyError"
    ELSE "ok"

AuthStart ==
    /\ s_headers = EmptyDict
    /\ auth_cache \in {NoFile, "rt0"}
    /\ cache0 = auth_cache
    /\ a_pc = "start"
    /\ a_outcome = "none"
    /\ consents = 0
    /\ redirect = <<>>
    /\ user_auth_code = <<>>
    /\ token_requests = <<>>
    /\ token_responses = <<>>

\* lines 229-233 with _refresh_auth (251-263) and _handle_auth_response
_refresh_auth ==
    /\ a_pc = "start"
    /\ IF auth_cache = NoFile
       THEN /\ a_pc' = "consent"
            /\ UNCHANGED <<s_headers, a_outcome, token_requests, token_responses>>
       ELSE \E response \in TokenResponses :
               /\ token_requests' = Append(token_requests,
                      [grant_type |-> "refresh_token", refresh_token |-> auth_cache])
               /\ token_responses' = Append(token_responses, response)
               /\ LET result == handle_auth_result(response)
                  IN  CASE result = "AuthorizationError" ->
                              /\ a_pc' = "consent"
                              /\ UNCHANGED <<s_headers, a_outcome>>
                        [] result = "KeyError" ->
                              /\ a_pc' = "done"
                              /\ a_outcome' = "KeyError"
                              /\ UNCHANGED s_headers
                        [] OTHER ->
                              /\ s_headers' = ("Authorization" :> Bearer(response.access_token))
                              /\ a_pc' = "done"
                              /\ a_outcome' = "returned"
    /\ UNCHANGED <<auth_cache, cache0, consents, redirect, user_auth_code>>
    /\ UNCHANGED <<feedVars, panVars, mainVars>>

\* line 235 with _authorize_user (274-299)
_authorize_user ==
    /\ a_pc = "consent"
    /\ consents' = consents + 1
    /\ \E typed \in Redirects :
          /\ redirect' = typed
          /\ IF deny_match(typed) \/ ~accept_match(typed)
             THEN /\ a_outcome' = "AuthorizationError"
                  /\ a_pc' = "done"
                  /\ UNCHANGED user_auth_code
             ELSE /\ user_auth_code' = accept_group1(typed)
                  /\ a_pc' = "exchange"
                  /\ UNCHANGED a_outcome
    /\ UNCHANGED <<s_headers, auth_cache, cache0, token_requests, token_responses>>
    /\ UNCHANGED <<feedVars, panVars, mainVars>>

\* lines 237-249
AuthExchange ==
    /\ a_pc = "exchange"
    /\ \E response \in TokenResponses :
          /\ token_requests' = Append(token_requests,
                 [grant_type |-> "authorization_code", code |-> user_auth_code,
                  redirect_uri |-> AUTH_REDIRECT_URI])
          /\ token_responses' = Append(token_responses, response)
          /\ LET result == handle_auth_result(response)
             IN  CASE result # "ok" ->
                         /\ a_outcome' = result
                         /\ UNCHANGED <<s_headers, auth_cache>>
                   [] result = "ok" /\ response.refresh_token = None ->
                         /\ s_headers' = ("Authorization" :> Bearer(response.access_token))
                         /\ a_outcome' = "KeyError"
                         /\ UNCHANGED auth_cache
                   [] OTHER ->
                         /\ s_headers' = ("Authorization" :> Bearer(response.access_token))
                         /\ auth_cache' = response.refresh_token
                         /\ a_outcome' = "returned"
    /\ a_pc' = "done"
    /\ UNCHANGED <<cache0, consents, redirect, user_auth_code>>
    /\ UNCHANGED <<feedVars, panVars, mainVars>>

\* the constructor returned by the refresh path
AuthIdle ==
    /\ auth_cache = "rt0"
    /\ cache0 = "rt0"
    /\ a_pc = "done"
    /\ a_outcome = "returned"
    /\ consents = 0
    /\ redirect = <<>>
    /\ user_auth_code = <<>>
    /\ token_requests = <<[grant_type |-> "refresh_token", refresh_token |-> "rt0"]>>
    /\ token_responses = <<[status_code |-> 200, access_token |-> "at1",
                            refresh_token |-> None]>>

-----------------------------------------------------------------------------
(* main.py: the station loop; spotify.py: import_song_group, import_song,  *)
(* create_playlist, get_current_user, find_song_uri, search_song,          *)
(* add_song_to_playlist, _send                                             *)

DebugStationId == "894519264273116392"

\* Stations the source account may hold
Stations ==
    { [stationId |-> DebugStationId, name |-> "Folk"],
      [stationId |-> "st2", name |-> "Jazz"] }

\* Feedback records a station may hold; album and artist may be None
Feedbacks ==
    { [songTitle |-> "Amsterdam", albumTitle |-> "The Weatherman",
       artistName |-> "Gregory Alan Isakov"],
      [songTitle |-> "Untitled", albumTitle |-> None, artistName |-> None] }

\* What /search may answer: the items (uris), total being their number
SearchResults == { <<>>, <<"uri1">>, <<"uri2", "uri1">> }

\* "id" of the /me and of the playlist-creation response; None: absent
UserIds == {None, "user1"}
PlaylistIds == {None, "pl1"}

NoRepeat(q) == \A a, b \in 1..Len(q) : a # b => q[a] # q[b]

StationLists == {q \in SeqsUpTo(Stations, MaxStations) : NoRepeat(q)}

FeedbackLists == SeqsUpTo(Feedbacks, MaxSongs)

\* pandora.py lines 46-53
SongOf(fb) == [name |-> fb.songTitle, album |-> fb.albumTitle, artist |-> fb.artistName]

get_liked_songs(feedbacks) == [k \in 1..Len(feedbacks) |-> SongOf(feedbacks[k])]

\* main.py line 23: the debug filter
RECURSIVE DebugFilter(_)
DebugFilter(q) ==
    IF q = <<>> THEN <<>>
    ELSE IF Head(q).stationId = DebugStationId
         THEN <<Head(q)>> \o DebugFilter(Tail(q))
         ELSE DebugFilter(Tail(q))

\* the loop of main.py without its len(liked_songs) > 0 test
NoGuard(liked_songs) == TRUE

\* main.py line 27
NonEmptyGuard(liked_songs) == Len(liked_songs) > 0

\* spotify.py lines 163-167: the query, a list of field:value clauses
search_query(name, album, artist) ==
    <<<<"track", name>>>>
        \o (IF artist # None THEN <<<<"artist", artist>>>> ELSE <<>>)
        \o (IF album # None THEN <<<<"album", album>>>> ELSE <<>>)

\* tracks[-1] in place of tracks[0]
result_uri_last(tracks) == tracks[Len(tracks)]

\* spotify.py lines 119-121
result_uri(tracks) == tracks[1]

\* spotify.py lines 195-197: the dict the request is sent with. It is
\* self.headers itself, so the update stays in self.headers.
_send_headers(extra_headers) ==
    IF extra_headers # EmptyDict THEN Update(s_headers, extra_headers) ELSE s_headers

MainFields ==
    /\ m_pc = "stations"
    /\ m_error = "none"
    /\ stations = <<>>
    /\ m_i = 0
    /\ group = [stationId |-> None, name |-> None, songs |-> <<>>]
    /\ song_i = 0
    /\ _user_id = None
    /\ playlist_id = None
    /\ song_uri = None
    /\ s_requests = <<>>
    /\ created = 0
    /\ added = 0
    /\ nonempty = 0
    /\ liked_total = 0

\* both clients are constructed: the bearer header is installed
MainStart ==
    /\ s_headers = ("Authorization" :> Bearer("at1"))
    /\ debug \in BOOLEAN
    /\ MainFields

MainIdle == debug = FALSE /\ MainFields

\* main.py lines 19-23
MainGetStations ==
    /\ m_pc = "stations"
    /\ \E answered \in StationLists :
          stations' = IF debug THEN DebugFilter(answered) ELSE answered
    /\ m_i' = 1
    /\ m_pc' = "liked"
    /\ UNCHANGED <<s_headers, debug, m_error, group, song_i, _user_id, playlist_id, song_uri,
                   s_requests, created, added, nonempty, liked_total>>
    /\ UNCHANGED <<feedVars, panVars, authRest>>

\* main.py lines 25-29: one iteration up to the call of import_song_group
MainStation ==
    /\ m_pc = "liked"
    /\ m_i <= Len(stations)
    /\ \E feedbacks \in FeedbackLists :
          LET liked_songs == get_liked_songs(feedbacks)
          IN  /\ nonempty' = IF Len(liked_songs) > 0 THEN nonempty + 1 ELSE nonempty
              /\ liked_total' = liked_total + Len(liked_songs)
              /\ IF NonEmptyGuard(liked_songs)
                 THEN /\ group' = [stationId |-> stations[m_i].stationId,
                                   name |-> stations[m_i].name, songs |-> liked_songs]
                      /\ s_requests' = <<>>
                      /\ song_i' = 0
                      /\ playlist_id' = None
                      /\ m_pc' = "me"
                      /\ UNCHANGED m_i
                 ELSE /\ m_i' = m_i + 1
                      /\ UNCHANGED <<group, s_requests, song_i, playlist_id, m_pc>>
    /\ UNCHANGED <<s_headers, debug, m_error, stations, _user_id, song_uri, created, added>>
    /\ UNCHANGED <<feedVars, panVars, authRest>>

\* main.py: the loop is over
MainEnd ==
    /\ m_pc = "liked"
    /\ m_i > Len(stations)
    /\ m_pc' = "done"
    /\ UNCHANGED <<s_headers, debug, m_error, stations, m_i, group, song_i, _user_id,
                   playlist_id, song_uri, s_requests, created, added, nonempty, liked_total>>
    /\ UNCHANGED <<feedVars, panVars, authRest>>

\* spotify.py line 88 with get_current_user (123-140)
get_current_user ==
    /\ m_pc = "me"
    /\ IF _user_id # None
       THEN /\ m_pc' = "create"
            /\ UNCHANGED <<_user_id, s_requests, s_headers, m_error>>
       ELSE /\ s_headers' = _send_headers(EmptyDict)
            /\ s_requests' = Append(s_requests,
                   [kind |-> "me", headers |-> _send_headers(EmptyDict)])
            /\ \E id \in UserIds :
                  IF id = None
                  THEN /\ m_error' = "KeyError"
                       /\ m_pc' = "done"
                       /\ UNCHANGED _user_id
                  ELSE /\ _user_id' = id
                       /\ m_pc' = "create"
                       /\ UNCHANGED m_error
    /\ UNCHANGED <<debug, stations, m_i, group, song_i, playlist_id, song_uri, created, added,
                   nonempty, liked_total>>
    /\ UNCHANGED <<feedVars, panVars, authRest>>

\* what follows one song's import, or the playlist's creation: the next
\* song, or the return to main.py and its next station
NextSong ==
    /\ song_i' = song_i + 1
    /\ IF song_i + 1 <= Len(group.songs)
       THEN m_pc' = "search" /\ UNCHANGED m_i
       ELSE m_pc' = "liked" /\ m_i' = m_i + 1

\* spotify.py lines 89-99 and 43-44
create_playlist ==
    /\ m_pc = "create"
    /\ LET headers == _send_headers("Content-Type" :> "application/json")
       IN  /\ s_headers' = headers
           /\ s_requests' = Append(s_requests,
                  [kind |-> "create", headers |-> headers, user |-> _user_id,
                   name |-> group.name, public |-> FALSE])
    /\ created' = created + 1
    /\ \E id \in PlaylistIds :
          IF id = None
          THEN /\ m_error' = "KeyError"
               /\ m_pc' = "done"
               /\ UNCHANGED <<playlist_id, song_i, m_i>>
          ELSE /\ playlist_id' = id
               /\ NextSong
               /\ UNCHANGED m_error
    /\ UNCHANGED <<debug, stations, group, _user_id, song_uri, added, nonempty, liked_total>>
    /\ UNCHANGED <<feedVars, panVars, authRest>>

\* one /search request of song song_i and its answer (lines 162-169)
SearchRequest(query, tracks) ==
    /\ s_headers' = _send_headers(EmptyDict)
    /\ s_requests' = Append(s_requests,
           [kind |-> "search", headers |-> _send_headers(EmptyDict), song |-> song_i,
            query |-> query, type |-> "track", items |-> tracks])

\* spotify.py lines 114-116 and 119-121: the search by name and artist
search_song ==
    /\ m_pc = "search"
    /\ LET song == group.songs[song_i]
       IN  \E tracks \in SearchResults :
              /\ SearchRequest(search_query(song.name, None, song.artist), tracks)
              /\ IF Len(tracks) = 0
                 THEN m_pc' = "retry" /\ UNCHANGED song_uri
                 ELSE m_pc' = "add" /\ song_uri' = result_uri(tracks)
    /\ UNCHANGED <<debug, m_error, stations, m_i, group, song_i, _user_id, playlist_id,
                   created, added, nonempty, liked_total>>
    /\ UNCHANGED <<feedVars, panVars, authRest>>

\* a song that is not found is skipped and the import goes on
search_song_retry_skip ==
    /\ m_pc = "retry"
    /\ LET song == group.songs[song_i]
       IN  \E tracks \in SearchResults :
              /\ SearchRequest(search_query(song.name, song.album, song.artist), tracks)
              /\ IF Len(tracks) = 0
                 THEN NextSong /\ UNCHANGED <<song_uri, m_error>>
                 ELSE /\ m_pc' = "add"
                      /\ song_uri' = result_uri(tracks)
                      /\ UNCHANGED <<m_error, song_i, m_i>>
    /\ UNCHANGED <<debug, stations, group, _user_id, playlist_id, created, added, nonempty,
                   liked_total>>
    /\ UNCHANGED <<feedVars, panVars, authRest>>

\* spotify.py lines 116-121: the search by name, artist and album, made
\* when the first one raised SongNotFoundError; its own SongNotFoundError
\* leaves find_song_uri, import_song, import_song_group and main.py
search_song_retry ==
    /\ m_pc = "retry"
    /\ LET song == group.songs[song_i]
       IN  \E tracks \in SearchResults :
              /\ SearchRequest(search_query(song.name, song.album, song.artist), tracks)
              /\ IF Len(tracks) = 0
                 THEN /\ m_error' = "SongNotFoundError"
                      /\ m_pc' = "done"
                      /\ UNCHANGED song_uri
                 ELSE /\ m_pc' = "add"
                      /\ song_uri' = result_uri(tracks)
                      /\ UNCHANGED m_error
    /\ UNCHANGED <<debug, stations, m_i, group, song_i, _user_id, playlist_id, created, added,
                   nonempty, liked_total>>
    /\ UNCHANGED <<feedVars, panVars, authRest>>

\* spotify.py lines 57, 71-72 and the loop of line 44
add_song_to_playlist ==
    /\ m_pc = "add"
    /\ s_headers' = _send_headers(EmptyDict)
    /\ s_requests' = Append(s_requests,
           [kind |-> "add", headers |-> _send_headers(EmptyDict), song |-> song_i,
            playlist |-> playlist_id, uris |-> song_uri])
    /\ added' = added + 1
    /\ NextSong
    /\ UNCHANGED <<debug, m_error, stations, group, _user_id, playlist_id, song_uri, created,
                   nonempty, liked_total>>
    /\ UNCHANGED <<feedVars, panVars, authRest>>

-----------------------------------------------------------------------------
(* Specifications *)

InitFeed == FeedStart /\ PanStart /\ AuthStart /\ auth_cache = NoFile /\ MainIdle

NextFeed == FbProbe \/ FbPage \/ FbReturn

SpecFeed == InitFeed /\ [][NextFeed]_vars

InitPandora == PanStart /\ FeedIdle /\ AuthStart /\ auth_cache = NoFile /\ MainIdle

NextPandora == PandoraNew \/ _get_csrf \/ _login \/ get_stations \/ get_station_feedbacks

SpecPandora == InitPandora /\ [][NextPandora]_vars

InitAuth == AuthStart /\ FeedIdle /\ PanStart /\ MainIdle

NextAuth == _refresh_auth \/ _authorize_user \/ AuthExchange

SpecAuth == InitAuth /\ [][NextAuth]_vars

InitMain == MainStart /\ AuthIdle /\ FeedIdle /\ PanStart

NextMain ==
    \/ MainGetStations \/ MainStation \/ MainEnd
    \/ get_current_user \/ create_playlist
    \/ search_song \/ search_song_retry \/ add_song_to_playlist

SpecMain == InitMain /\ [][NextMain]_vars

-----------------------------------------------------------------------------
(* C3: for every total T >= 0, get_station_feedbacks sends one size probe  *)
(* (pageSize 1, no startIndex) and then exactly ceil(T/10) page requests   *)
(* with startIndex 0, 10, 20, ... in increasing order; it returns the      *)
(* pages' feedback arrays concatenated in page order, which are the T      *)
(* records 0..T-1 when every page held its records; T = 0 sends no page.   *)
C3_Paging ==
    fb_pc = "done" =>
        LET n == Len(fb_requests) - 1
            T == total_feedbacks
        IN  /\ n >= 0
            /\ fb_requests[1] = [stationId |-> station_id, positive |-> positive,
                                 pageSize |-> 1]
            /\ \/ (T = 0 /\ n = 0)
               \/ (n >= 1 /\ 10 * (n - 1) < T /\ T <= 10 * n)
            /\ \A k \in 1..n :
                  fb_requests[k + 1] = [stationId |-> station_id, positive |-> positive,
                                        pageSize |-> 10, startIndex |-> 10 * (k - 1)]
            /\ Len(fb_responses) = n
            /\ feedback = Flatten(fb_responses)
            /\ (T = 0 => feedback = <<>>)
            /\ (fb_conform => feedback = [k \in 1..T |-> k - 1])

C3_Witness ==
    /\ fb_pc = "done"
    /\ fb_conform
    /\ total_feedbacks > 2 * page_size
    /\ total_feedbacks % page_size # 0
    /\ Len(fb_requests) = 4
    /\ Len(feedback) = total_feedbacks

-----------------------------------------------------------------------------
(* C9: every data request an instance sends carries a CSRF token and an    *)
(* auth token that a successful login with that instance's own username    *)
(* and password obtained; and a construction whose login response lacks    *)
(* authToken raises AuthorizationError without installing the header.      *)
C9_OwnLogin ==
    /\ \A k \in 1..Len(data_requests) :
          LET h == data_requests[k].request.headers
              c == clients[data_requests[k].client]
          IN  /\ csrf_token_header_name \in DOMAIN h
              /\ auth_token_header_name \in DOMAIN h
              /\ \E j \in 1..Len(logins) :
                    /\ logins[j].username = c.username
                    /\ logins[j].password = c.password
                    /\ logins[j].authToken # None
                    /\ logins[j].authToken = h[auth_token_header_name]
    /\ (p_outcome = "AuthorizationError" => auth_token_header_name \notin DOMAIN p_headers)

-----------------------------------------------------------------------------
(* Shorthands for the authorization claims *)

RefreshSent ==
    /\ Len(token_requests) >= 1
    /\ token_requests[1].grant_type = "refresh_token"

ExchangeSent ==
    /\ Len(token_requests) >= 1
    /\ token_requests[Len(token_requests)].grant_type = "authorization_code"

BearerInstalled == "Authorization" \in DOMAIN s_headers

(* C4: the consent step is invoked exactly when the refresh path fails,    *)
(* and then once: a cache file whose refresh grant is answered 200 leaves  *)
(* the bearer header installed and the consent step uninvoked; an absent   *)
(* file or a non-200 answer leads to exactly one consent step.             *)
C4_ConsentIffRefreshFails ==
    a_pc # "start" =>
        IF RefreshSent /\ token_responses[1].status_code = 200
        THEN BearerInstalled /\ consents = 0
        ELSE \/ a_pc = "consent" /\ consents = 0
             \/ a_pc \in {"exchange", "done"} /\ consents = 1

(* C5: _authorize ends either returning with the bearer header installed   *)
(* or raising AuthorizationError, whatever the file, the token endpoint's  *)
(* answers and the redirect string are.                                    *)
C5_TwoOutcomes ==
    a_pc = "done" =>
        \/ a_outcome = "returned" /\ BearerInstalled
        \/ a_outcome = "AuthorizationError"

(* C7: the cache file holds the refresh_token of the authorization-code    *)
(* response whenever the bearer header of that exchange is installed, and  *)
(* is left as it was on the refresh path and on every failed authorize     *)
(* path.                                                                   *)
C7_CacheWrittenOnFreshAuth ==
    a_pc = "done" =>
        IF ExchangeSent /\ BearerInstalled
        THEN auth_cache = token_responses[Len(token_responses)].refresh_token
        ELSE auth_cache = cache0

(* C6: a redirect string <redirect URI>?code=X yields the code X, and X is *)
(* the code of the authorization_code grant; <redirect URI>?error=         *)
(* access_denied, and a string of neither form, raise AuthorizationError,  *)
(* and then no authorization_code request is sent, no bearer header is     *)
(* installed and the cache file is not written.                            *)
C6_RedirectOutcomes ==
    (consents = 1 /\ a_pc # "consent") =>
        LET isCode == /\ Len(redirect) >= 2
                      /\ redirect[1] = "http://localhost/auth/"
                      /\ redirect[2] = "?code="
            X == SubSeq(redirect, 3, Len(redirect))
        IN  /\ isCode =>
                  /\ a_pc \in {"exchange", "done"}
                  /\ user_auth_code = X
                  /\ (a_pc = "exchange" => ~ExchangeSent)
                  /\ (a_pc = "done" =>
                         /\ ExchangeSent
                         /\ token_requests[Len(token_requests)].code = X)
            /\ ~isCode =>
                  /\ a_pc = "done"
                  /\ a_outcome = "AuthorizationError"
                  /\ ~ExchangeSent
                  /\ ~BearerInstalled
                  /\ auth_cache = cache0

C6_Witness ==
    /\ a_pc = "done"
    /\ consents = 1
    /\ redirect = <<"http://localhost/auth/", "?code=", "ABC123">>
    /\ a_outcome = "returned"
    /\ token_requests[Len(token_requests)].code = <<"ABC123">>

-----------------------------------------------------------------------------
(* Shorthands for the import claims: positions in s_requests *)

ReqsOfKind(kinds) == {i \in 1..Len(s_requests) : s_requests[i].kind \in kinds}

SongReqs == ReqsOfKind({"search", "add"})

IsSearchOf(r, s) == r.kind = "search" /\ r.song = s

\* the searches made for song s, in the order sent
SearchesOf(s) ==
    LET RECURSIVE Pick(_)
        Pick(i) == IF i > Len(s_requests) THEN <<>>
                   ELSE IF IsSearchOf(s_requests[i], s)
                        THEN <<s_requests[i]>> \o Pick(i + 1)
                        ELSE Pick(i + 1)
    IN  Pick(1)

AddsOf(s) == {i \in ReqsOfKind({"add"}) : s_requests[i].song = s}

\* find_song_uri raised SongNotFoundError for song s
NotFound(s) ==
    LET ss == SearchesOf(s)
    IN  Len(ss) = 2 /\ ss[1].items = <<>> /\ ss[2].items = <<>>

(* C1: import_song_group sends one playlist-creation request, named        *)
(* group["name"], before any search or track-addition request, then imports *)
(* the songs one at a time in list order; at the first song find_song_uri  *)
(* raises SongNotFoundError for, the import ends with SongNotFoundError    *)
(* and no request is sent for the songs after it.                          *)
C1_ImportOrder ==
    LET creates == ReqsOfKind({"create"})
        nsongs == Len(group.songs)
    IN  /\ Cardinality(creates) <= 1
        /\ \A c \in creates : s_requests[c].name = group.name
        /\ \A i \in SongReqs : \E c \in creates : c < i
        /\ (m_pc \in {"search", "retry", "add"} => Cardinality(creates) = 1)
        /\ \A i \in SongReqs : s_requests[i].song \in 1..nsongs
        /\ \A i, j \in SongReqs : i < j => s_requests[i].song <= s_requests[j].song
        /\ \A i \in ReqsOfKind({"add"}) : \A j \in SongReqs :
              j > i => s_requests[j].song > s_requests[i].song
        /\ \A i \in SongReqs : \A s \in 1..(s_requests[i].song - 1) : AddsOf(s) # {}
        /\ \A i \in ReqsOfKind({"search"}) :
              s_requests[i].query[1] = <<"track", group.songs[s_requests[i].song].name>>
        /\ \A s \in 1..nsongs :
              NotFound(s) =>
                 /\ m_error = "SongNotFoundError"
                 /\ m_pc = "done"
                 /\ AddsOf(s) = {}
                 /\ \A i \in SongReqs : s_requests[i].song <= s
        /\ (m_error = "SongNotFoundError" => NotFound(song_i))
        /\ (m_pc \in {"liked", "done"} /\ m_error = "none" /\ creates # {}) =>
              \A s \in 1..nsongs : Cardinality(AddsOf(s)) = 1

C1_Witness ==
    /\ m_error = "SongNotFoundError"
    /\ Len(group.songs) = 2
    /\ song_i = 1
    /\ Len(s_requests) = 4
    /\ s_requests[2].kind = "create"

(* C2: find_song_uri makes at most two searches: by name and artist, and,  *)
(* only if that one has no hit, by name, artist and album. It returns the  *)
(* uri of the first result of the search that had hits (of the second one  *)
(* when the first had none), and raises SongNotFoundError when both had    *)
(* none.                                                                   *)
C2_FindSongUri ==
    \A s \in 1..Len(group.songs) :
        LET song == group.songs[s]
            ss == SearchesOf(s)
            byArtist == IF song.artist = None THEN <<>> ELSE <<<<"artist", song.artist>>>>
            byAlbum == IF song.album = None THEN <<>> ELSE <<<<"album", song.album>>>>
            nameArtist == <<<<"track", song.name>>>> \o byArtist
            nameArtistAlbum == <<<<"track", song.name>>>> \o byArtist \o byAlbum
            found == Len(ss) >= 1 /\ ss[Len(ss)].items # <<>>
        IN  /\ Len(ss) <= 2
            /\ (Len(ss) >= 1 => ss[1].query = nameArtist)
            /\ (Len(ss) = 2 => ss[1].items = <<>> /\ ss[2].query = nameArtistAlbum)
            /\ (Len(ss) = 1 /\ ss[1].items = <<>> => m_pc = "retry" /\ song_i = s)
            /\ (found /\ song_i = s /\ m_pc = "add" => song_uri = ss[Len(ss)].items[1])
            /\ (\A i \in AddsOf(s) : found /\ s_requests[i].uris = ss[Len(ss)].items[1])
            /\ (found /\ song_i = s => m_error # "SongNotFoundError")
            /\ (Len(ss) = 2 /\ ss[2].items = <<>> =>
                   m_error = "SongNotFoundError" /\ m_pc = "done" /\ song_i = s)

C2_Witness ==
    /\ m_pc = "add"
    /\ song_i >= 1
    /\ group.songs[song_i].album # None
    /\ Len(SearchesOf(song_i)) = 2
    /\ SearchesOf(song_i)[1].items = <<>>
    /\ SearchesOf(song_i)[2].items = <<"uri2", "uri1">>
    /\ song_uri = "uri2"

(* C8: a station without liked songs causes no playlist creation, search   *)
(* or track addition; a station with liked songs causes one playlist       *)
(* creation, named after it, and one track addition per liked song with    *)
(* the uri of the first search result; without an error the playlists      *)
(* created are as many as the processed stations with a liked song.        *)
C8_PlaylistPerStation ==
    LET creates == ReqsOfKind({"create"})
        importing == m_pc \in {"me", "create", "search", "retry", "add"}
        between == m_pc \in {"liked", "done"} /\ m_error = "none"
    IN  /\ created <= nonempty
        /\ added <= liked_total
        /\ (m_pc \in {"me", "create"} => created = nonempty - 1)
        /\ (m_pc \in {"search", "retry", "add"} => created = nonempty)
        /\ (between => created = nonempty /\ added = liked_total)
        /\ (importing =>
               /\ group.songs # <<>>
               /\ group.name = stations[m_i].name
               /\ group.stationId = stations[m_i].stationId)
        /\ (s_requests # <<>> => group.songs # <<>>)
        /\ \A c \in creates : s_requests[c].name = group.name
        /\ \A i \in SongReqs : s_requests[i].song \in 1..Len(group.songs)
        /\ (between /\ s_requests # <<>> =>
               /\ Cardinality(creates) = 1
               /\ \A s \in 1..Len(group.songs) :
                     /\ Cardinality(AddsOf(s)) = 1
                     /\ \A i \in AddsOf(s) :
                           LET ss == SearchesOf(s)
                           IN  s_requests[i].uris = ss[Len(ss)].items[1])

C8_Witness ==
    /\ m_pc = "done"
    /\ m_error = "none"
    /\ Len(stations) = 2
    /\ nonempty = 1
    /\ created = 1
    /\ liked_total = 2
    /\ added = 2

(* C10: the SpotifyClient's default headers stay the single Authorization  *)
(* bearer header of the authorization; the Content-Type header given to    *)
(* _send by create_playlist is carried by that request only.               *)
C10_HeadersUnchanged ==
    /\ s_headers = ("Authorization" :> Bearer("at1"))
    /\ \A i \in ReqsOfKind({"me", "search", "add"}) :
          s_requests[i].headers = ("Authorization" :> Bearer("at1"))

=============================================================================
